---- MODULE Spec2Model ----
(***************************************************************************)
(* Model of compiler/helpers.go (package compiler of gnostic): the $ref    *)
(* resolver ReadInfoForRef with its process-wide info_cache, the loader    *)
(* ReadFile, and the key-set helpers MapHasKey, MissingKeysInMap,          *)
(* PatternMatches and InvalidKeysInMap.                                    *)
(*                                                                         *)
(* A Go string is a sequence of one-character strings, so that             *)
(* strings.Split, filepath.Split and url.Parse are computed character by   *)
(* character.  A decoded YAML value is a record [kind, items, val]: a      *)
(* yaml.MapSlice is kind "map" with its items in document order, every     *)
(* other decoded value is kind "scalar", and the untyped nil interface is  *)
(* kind "nil".                                                             *)
(***************************************************************************)
EXTENDS Integers, Sequences, FiniteSets, TLC

VARIABLES
    info_cache,   \* helpers.go:158  [isNil, m]: the map, nil until first call
    count,        \* helpers.go:159  number of cache misses so far
    proc,         \* "running" | "exited" (os.Exit, log.Fatal) | "panicked"
    fs,           \* the documents behind the locators, as far as observed
    reads,        \* number of ReadFile invocations so far
    ncalls,       \* number of ReadInfoForRef invocations so far
    last,         \* what the most recent ReadInfoForRef invocation did
    pc,           \* concurrent callers: position of each goroutine
    loc,          \* concurrent callers: local variables of each goroutine
    kin,          \* key-set helpers: the arguments of the call
    kout          \* key-set helpers: what the call returned

vars == <<info_cache, count, proc, fs, reads, ncalls, last, pc, loc, kin, kout>>

----------------------------------------------------------------------------
(* Bounds *)

\* calls of ReadInfoForRef made from one goroutine
MaxCalls == 2

\* goroutines calling ReadInfoForRef at once, one call each
NumCallers == 2

\* length of a MapSlice and of a list of keys or patterns given to the
\* key-set helpers
MaxLen == 2

----------------------------------------------------------------------------
(* Decoded values *)

Nil == [kind |-> "nil", items |-> <<>>, val |-> 0]

Scalar(v) == [kind |-> "scalar", items |-> <<>>, val |-> v]

MapSlice(items) == [kind |-> "map", items |-> items, val |-> 0]

MapItem(k, v) == [Key |-> k, Value |-> v]

\* var info yaml.MapSlice, left untouched by a failed yaml.Unmarshal
ZeroMapSlice == MapSlice(<<>>)

----------------------------------------------------------------------------
(* String functions of the Go library, as far as the program uses them *)

RECURSIVE Split(_, _)
\* strings.Split(s, sep) for a one-character sep
Split(s, sep) ==
    IF \A i \in 1..Len(s) : s[i] # sep
    THEN <<s>>
    ELSE LET i == CHOOSE k \in 1..Len(s) :
                      s[k] = sep /\ \A j \in 1..(k - 1) : s[j] # sep
         IN  <<SubSeq(s, 1, i - 1)>> \o Split(SubSeq(s, i + 1, Len(s)), sep)

\* filepath.Split(path): dir is the path up to and including its last "/"
FilepathSplitDir(path) ==
    LET slashes == {i \in 1..Len(path) : path[i] = "/"}
    IN  IF slashes = {} THEN <<>>
        ELSE SubSeq(path, 1, CHOOSE i \in slashes : \A j \in slashes : j <= i)

Letters == {"a", "b", "d", "h", "o", "r", "s", "W", "x"}

\* url.Parse(rawurl), as far as ReadFile reads its result: "error" (Parse
\* returns a nil *URL: a string starting with ":" has no protocol scheme),
\* "scheme" (letters up to a first ":") or "noscheme".
UrlParse(rawurl) ==
    LET stops == {i \in 1..Len(rawurl) : rawurl[i] \notin Letters}
    IN  IF stops = {} THEN "noscheme"
        ELSE LET i == CHOOSE k \in stops : \A j \in stops : k <= j
             IN  IF rawurl[i] # ":" THEN "noscheme"
                 ELSE IF i = 1 THEN "error"
                 ELSE "scheme"

----------------------------------------------------------------------------
(* The documents *)

DocWidget ==
    MapSlice(<< MapItem(<<"d">>, MapSlice(<< MapItem(<<"W">>, Scalar(1)) >>)),
                MapItem(<<"a">>, Scalar(2)),
                MapItem(<<"a", "#", "b">>, Scalar(3)) >>)

DocOther ==
    MapSlice(<< MapItem(<<"d">>, MapSlice(<< MapItem(<<"W">>, Scalar(4)) >>)) >>)

\* yaml.v2 decodes a repeated key into a MapSlice with both items
DocRepeated ==
    MapSlice(<< MapItem(<<"d">>, Scalar(5)),
                MapItem(<<"d">>, MapSlice(<< MapItem(<<"W">>, Scalar(6)) >>)) >>)

Docs == {DocWidget, DocOther, DocRepeated}

File(st, doc) == [state |-> st, doc |-> doc]

\* What may lie behind a locator: a document, bytes that do not decode into
\* a MapSlice, nothing (a local read error, a failed GET), or a response
\* whose body cannot be read to its end.
FileStates(filename) ==
    {File("ok", d) : d \in Docs}
        \cup {File("garbage", Nil), File("unreadable", Nil)}
        \cup (IF UrlParse(filename) = "scheme"
              THEN {File("bodyerror", Nil)} ELSE {})

----------------------------------------------------------------------------
(* ReadFile, helpers.go:126-156 *)

\* The outcome of ReadFile(filename) when `file` lies behind filename:
\* [kind |-> "value", info |-> the value returned] or the way the process
\* ended.
ReadFile(filename, file) ==
    LET Value(v) == [kind |-> "value", info |-> v]
        End(how) == [kind |-> how, info |-> Nil]
        Unmarshal == IF file.state = "ok" THEN file.doc ELSE ZeroMapSlice
    IN  CASE UrlParse(filename) = "error"  -> End("panicked")
          [] UrlParse(filename) = "scheme" ->
                 CASE file.state = "unreadable" -> End("exited")
                   [] file.state = "bodyerror"  -> Value(Nil)
                   [] OTHER                     -> Value(Unmarshal)
          [] OTHER ->
                 IF file.state = "unreadable" THEN End("exited")
                 ELSE Value(Unmarshal)

----------------------------------------------------------------------------
(* ReadInfoForRef, helpers.go:162-203 *)

\* helpers.go:176-183
Filename(basefile, ref) ==
    LET basedir == FilepathSplitDir(basefile)
        parts   == Split(ref, "#")
    IN  IF parts[1] # <<>> THEN basedir \o parts[1] ELSE basefile

\* helpers.go:189-196: one segment of the path
WalkKey(info, key) ==
    IF info.kind = "map"
    THEN LET hits == {j \in 1..Len(info.items) : info.items[j].Key = key}
         IN  IF hits = {} THEN info
             ELSE info.items[CHOOSE j \in hits : \A k \in hits : k <= j].Value
    ELSE info

RECURSIVE WalkFrom(_, _, _)
WalkFrom(info, path, i) ==
    IF i > Len(path) THEN info
    ELSE WalkFrom(IF i > 1 THEN WalkKey(info, path[i]) ELSE info, path, i + 1)

\* helpers.go:185-199
Walk(info, ref) ==
    LET parts == Split(ref, "#")
    IN  IF Len(parts) > 1 THEN WalkFrom(info, Split(parts[2], "/"), 1)
        ELSE info

\* helpers.go:163-166
MadeCache(cache) == IF cache.isNil THEN [isNil |-> FALSE, m |-> <<>>] ELSE cache

\* helpers.go:201
CachePut(cache, ref, info) ==
    [isNil |-> FALSE,
     m |-> [r \in DOMAIN cache.m \cup {ref} |->
               IF r = ref THEN info ELSE cache.m[r]]]

CacheHasNever(cache, ref) == FALSE

\* helpers.go:168
CacheHas(cache, ref) == ref \in DOMAIN cache.m

Bases == { <<"s", "/", "r">>, <<"r">>, <<"h", ":", "/", "r">> }

Refs == { <<"o", "#", "/", "d", "/", "W">>,
          <<"#", "/", "d", "/", "W">>,
          <<"#", "/", "d", "/", "x">>,
          <<"#", "/", "a", "/", "W">>,
          <<"#", "/", "a", "#", "b">>,
          <<"/", "o", "#", "/", "d">>,
          <<"o">>,
          <<"h", ":", "o">>,
          <<":", "o">> }

\* What a call leaves for the next one to be compared with
Summary(call) == [base |-> call.base, ref |-> call.ref,
                  outcome |-> call.outcome, result |-> call.result,
                  reads0 |-> call.reads0]

NoCall == [base |-> <<>>, ref |-> <<>>, hit |-> FALSE, filename |-> <<>>,
           file |-> File("none", Nil), outcome |-> "none", result |-> Nil,
           before |-> <<>>, reads0 |-> 0,
           prev |-> [base |-> <<>>, ref |-> <<>>, outcome |-> "none",
                     result |-> Nil, reads0 |-> 0]]

\* The document behind filename is fixed for the run; the model learns of
\* it when a call first names the locator.
Observe(filename, file) ==
    /\ file \in (IF filename \in DOMAIN fs THEN {fs[filename]}
                 ELSE FileStates(filename))
    /\ fs' = [f \in DOMAIN fs \cup {filename} |->
                 IF f = filename THEN file ELSE fs[f]]

ReadInfoForRef(basefile, ref) ==
    /\ proc = "running"
    /\ ncalls < MaxCalls
    /\ ncalls' = ncalls + 1
    /\ UNCHANGED <<pc, loc, kin, kout>>
    /\ \E file \in FileStates(Filename(basefile, ref)) :
         LET cache    == MadeCache(info_cache)
             filename == Filename(basefile, ref)
             read     == ReadFile(filename, file)
             info     == Walk(read.info, ref)
             call     == [base |-> basefile, ref |-> ref, hit |-> FALSE,
                          filename |-> filename, file |-> file,
                          outcome |-> "returned", result |-> Nil,
                          before |-> cache.m, reads0 |-> reads,
                          prev |-> Summary(last)]
         IN  /\ Observe(filename, file)
             /\ IF CacheHas(cache, ref)
                THEN /\ info_cache' = cache
                     /\ last' = [call EXCEPT !.hit = TRUE,
                                             !.result = cache.m[ref]]
                     /\ UNCHANGED <<count, reads, proc>>
                ELSE /\ count' = count + 1
                     /\ reads' = reads + 1
                     /\ IF read.kind = "value"
                        THEN /\ info_cache' = CachePut(cache, ref, info)
                             /\ last' = [call EXCEPT !.result = info]
                             /\ proc' = proc
                        ELSE /\ info_cache' = cache
                             /\ last' = [call EXCEPT !.outcome = read.kind]
                             /\ proc' = read.kind

----------------------------------------------------------------------------
(* The key-set helpers, helpers.go:50-123 *)

\* helpers.go:50-57
MapHasKey(m, key) == \E i \in 1..Len(m.items) : key = m.items[i].Key

\* regexp.Match(pattern, value) for the patterns the generated code passes:
\* a literal, optionally anchored by a leading "^" and a trailing "$".
\* An unanchored pattern matches anywhere in value.
PatternMatches(pattern, value) ==
    LET atStart == Len(pattern) > 0 /\ pattern[1] = "^"
        atEnd   == Len(pattern) > 0 /\ pattern[Len(pattern)] = "$"
        lit     == SubSeq(pattern, IF atStart THEN 2 ELSE 1,
                          IF atEnd THEN Len(pattern) - 1 ELSE Len(pattern))
    IN  \E from \in 1..(Len(value) + 1) :
            /\ from + Len(lit) - 1 <= Len(value)
            /\ SubSeq(value, from, from + Len(lit) - 1) = lit
            /\ atStart => from = 1
            /\ atEnd => from + Len(lit) - 1 = Len(value)

MissingKeysInMapPresent(m, requiredKeys) ==
    SelectSeq(requiredKeys, LAMBDA k : MapHasKey(m, k))

\* helpers.go:87-95
MissingKeysInMap(m, requiredKeys) ==
    SelectSeq(requiredKeys, LAMBDA k : ~MapHasKey(m, k))

InvalidKeysInMapFirstPattern(m, allowedKeys, allowedPatterns) ==
    LET keys == [i \in 1..Len(m.items) |-> m.items[i].Key]
        found(key) ==
            \/ \E i \in 1..Len(allowedKeys) : key = allowedKeys[i]
            \/ /\ Len(allowedPatterns) > 0
               /\ PatternMatches(allowedPatterns[1], key)
    IN  SelectSeq(keys, LAMBDA key : ~found(key))

\* helpers.go:97-123
InvalidKeysInMap(m, allowedKeys, allowedPatterns) ==
    LET keys == [i \in 1..Len(m.items) |-> m.items[i].Key]
        found(key) ==
            \/ \E i \in 1..Len(allowedKeys) : key = allowedKeys[i]
            \/ \E j \in 1..Len(allowedPatterns) :
                   PatternMatches(allowedPatterns[j], key)
    IN  SelectSeq(keys, LAMBDA key : ~found(key))

KeyNames == { <<"x", "-", "a">>, <<"a", "b">>, <<"b">> }

Patterns == { <<"^", "x", "-">>, <<"b", "$">>, <<"^", "a", "$">>, <<"a">> }

SeqsUpTo(S, n) == UNION {[1..k -> S] : k \in 0..n}

MapSlices ==
    {MapSlice([i \in 1..Len(ks) |-> MapItem(ks[i], Scalar(i))]) :
        ks \in SeqsUpTo(KeyNames, MaxLen)}

NoKeys == [m |-> ZeroMapSlice, requiredKeys |-> <<>>, allowedKeys |-> <<>>,
           allowedPatterns |-> <<>>]

\* The helpers keep no state: one call, with any arguments, is every call.
CallMissingKeysInMap ==
    /\ kout.op = "none"
    /\ \E m \in MapSlices, requiredKeys \in SeqsUpTo(KeyNames, MaxLen) :
         /\ kin' = [NoKeys EXCEPT !.m = m, !.requiredKeys = requiredKeys]
         /\ kout' = [op |-> "MissingKeysInMap",
                     keys |-> MissingKeysInMap(m, requiredKeys)]
    /\ UNCHANGED <<info_cache, count, proc, fs, reads, ncalls, last, pc, loc>>

CallInvalidKeysInMap ==
    /\ kout.op = "none"
    /\ \E m \in MapSlices, allowedKeys \in SeqsUpTo(KeyNames, MaxLen),
          allowedPatterns \in SeqsUpTo(Patterns, MaxLen) :
         /\ kin' = [NoKeys EXCEPT !.m = m, !.allowedKeys = allowedKeys,
                                  !.allowedPatterns = allowedPatterns]
         /\ kout' = [op |-> "InvalidKeysInMap",
                     keys |-> InvalidKeysInMap(m, allowedKeys, allowedPatterns)]
    /\ UNCHANGED <<info_cache, count, proc, fs, reads, ncalls, last, pc, loc>>

NextKeys == CallMissingKeysInMap \/ CallInvalidKeysInMap

----------------------------------------------------------------------------
(* ReadInfoForRef called from several goroutines at once.  The program     *)
(* takes no lock: each access to info_cache and count is a step of its    *)
(* own, and the steps of different goroutines interleave freely.           *)

Callers == 1..NumCallers

ConcurrentRefs == { <<"#", "/", "d", "/", "W">>,
                    <<"o", "#", "/", "d", "/", "W">> }

NoLocals == [basefile |-> <<>>, ref |-> <<>>, info |-> Nil, c |-> 0,
             result |-> Nil]

Goto(g, label) == pc' = [pc EXCEPT ![g] = label]

\* helpers.go:162
Enter(g, basefile, ref) ==
    /\ proc = "running" /\ pc[g] = "idle"
    /\ Goto(g, "L163")
    /\ loc' = [loc EXCEPT ![g] = [NoLocals EXCEPT !.basefile = basefile,
                                                  !.ref = ref]]
    /\ ncalls' = ncalls + 1
    /\ UNCHANGED <<info_cache, count, proc, fs, reads, last, kin, kout>>

\* helpers.go:163
TestNil(g) ==
    /\ proc = "running" /\ pc[g] = "L163"
    /\ Goto(g, IF info_cache.isNil THEN "L165" ELSE "L168")
    /\ UNCHANGED <<info_cache, count, proc, fs, reads, ncalls, last, loc,
                   kin, kout>>

\* helpers.go:165: a fresh map replaces whatever info_cache holds by now
MakeCache(g) ==
    /\ proc = "running" /\ pc[g] = "L165"
    /\ info_cache' = [isNil |-> FALSE, m |-> <<>>]
    /\ Goto(g, "L168")
    /\ UNCHANGED <<count, proc, fs, reads, ncalls, last, loc, kin, kout>>

\* helpers.go:168-172
Lookup(g) ==
    /\ proc = "running" /\ pc[g] = "L168"
    /\ IF CacheHas(info_cache, loc[g].ref)
       THEN /\ loc' = [loc EXCEPT ![g].result = info_cache.m[loc[g].ref]]
            /\ Goto(g, "returned")
       ELSE /\ loc' = loc
            /\ Goto(g, "L175")
    /\ UNCHANGED <<info_cache, count, proc, fs, reads, ncalls, last, kin, kout>>

\* helpers.go:175, the read of count
ReadCount(g) ==
    /\ proc = "running" /\ pc[g] = "L175"
    /\ loc' = [loc EXCEPT ![g].c = count]
    /\ Goto(g, "L175w")
    /\ UNCHANGED <<info_cache, count, proc, fs, reads, ncalls, last, kin, kout>>

\* helpers.go:175, the write of count
WriteCount(g) ==
    /\ proc = "running" /\ pc[g] = "L175w"
    /\ count' = loc[g].c + 1
    /\ Goto(g, "L184")
    /\ UNCHANGED <<info_cache, proc, fs, reads, ncalls, last, loc, kin, kout>>

\* helpers.go:176-199: the load and the walk, on the goroutine's own data
Load(g) ==
    /\ proc = "running" /\ pc[g] = "L184"
    /\ reads' = reads + 1
    /\ \E file \in FileStates(Filename(loc[g].basefile, loc[g].ref)) :
         LET filename == Filename(loc[g].basefile, loc[g].ref)
             read     == ReadFile(filename, file)
         IN  /\ Observe(filename, file)
             /\ IF read.kind = "value"
                THEN /\ loc' = [loc EXCEPT
                                  ![g].info = Walk(read.info, loc[g].ref)]
                     /\ Goto(g, "L201")
                     /\ proc' = proc
                ELSE /\ proc' = read.kind
                     /\ UNCHANGED <<loc, pc>>
    /\ UNCHANGED <<info_cache, count, ncalls, last, kin, kout>>

\* helpers.go:201-202
Store(g) ==
    /\ proc = "running" /\ pc[g] = "L201"
    /\ info_cache' = CachePut(info_cache, loc[g].ref, loc[g].info)
    /\ loc' = [loc EXCEPT ![g].result = loc[g].info]
    /\ Goto(g, "returned")
    /\ UNCHANGED <<count, proc, fs, reads, ncalls, last, kin, kout>>

\* helpers.go:201 while another goroutine is at its own access to the map:
\* the two accesses race, and the Go runtime may end the process with
\* "fatal error: concurrent map writes" (or "... read and map write").
StoreFatal(g) ==
    /\ proc = "running" /\ pc[g] = "L201"
    /\ \E h \in Callers \ {g} : pc[h] \in {"L168", "L201"}
    /\ proc' = "exited"
    /\ UNCHANGED <<info_cache, count, fs, reads, ncalls, last, pc, loc,
                   kin, kout>>

NextConcurrent ==
    \E g \in Callers :
        \/ \E basefile \in Bases, ref \in ConcurrentRefs : Enter(g, basefile, ref)
        \/ TestNil(g)
        \/ MakeCache(g)
        \/ Lookup(g)
        \/ ReadCount(g)
        \/ WriteCount(g)
        \/ Load(g)
        \/ Store(g)
        \/ StoreFatal(g)

Init ==
    /\ info_cache = [isNil |-> TRUE, m |-> <<>>]
    /\ count = 0
    /\ proc = "running"
    /\ fs = <<>>
    /\ reads = 0
    /\ ncalls = 0
    /\ last = NoCall
    /\ pc = [g \in Callers |-> "idle"]
    /\ loc = [g \in Callers |-> NoLocals]
    /\ kin = NoKeys
    /\ kout = [op |-> "none", keys |-> <<>>]

----------------------------------------------------------------------------
(* The resolver as the specification describes it, for the claims to be   *)
(* stated against: the reference split at its first "#", the fragment's   *)
(* segments, the descent through them.                                     *)

FirstHash(ref) ==
    LET hs == {i \in 1..Len(ref) : ref[i] = "#"}
    IN  IF hs = {} THEN 0 ELSE CHOOSE i \in hs : \A j \in hs : i <= j

FilePart(ref) ==
    IF FirstHash(ref) = 0 THEN ref ELSE SubSeq(ref, 1, FirstHash(ref) - 1)

HasFragment(ref) == FirstHash(ref) # 0

FragmentPart(ref) == SubSeq(ref, FirstHash(ref) + 1, Len(ref))

\* the segments after the empty one a leading "/" produces
Segments(ref) ==
    IF HasFragment(ref) THEN Tail(Split(FragmentPart(ref), "/")) ELSE <<>>

KeysOf(node) == {node.items[j].Key : j \in 1..Len(node.items)}

KeysUnique(node) ==
    \A i, j \in 1..Len(node.items) :
        node.items[i].Key = node.items[j].Key => i = j

ValueOf(node, key) ==
    node.items[CHOOSE j \in 1..Len(node.items) : node.items[j].Key = key].Value

RECURSIVE Descend(_, _)
\* [ok |-> every segment was a key of the Mapping reached so far,
\*  node |-> the subtree reached]
Descend(node, segs) ==
    IF segs = <<>> THEN [ok |-> TRUE, node |-> node]
    ELSE IF node.kind = "map" /\ KeysUnique(node) /\ Head(segs) \in KeysOf(node)
    THEN Descend(ValueOf(node, Head(segs)), Tail(segs))
    ELSE [ok |-> FALSE, node |-> node]

IsAbsolute(path) == Len(path) > 0 /\ path[1] = "/"

Locator(baseLocator, ref) ==
    LET filePart == FilePart(ref)
    IN  IF filePart = <<>> THEN baseLocator
        ELSE IF UrlParse(filePart) = "scheme" \/ IsAbsolute(filePart)
        THEN filePart
        ELSE FilepathSplitDir(baseLocator) \o filePart

Called == last.outcome # "none"

Missed == Called /\ ~last.hit

LoadFailed == last.file.state \in {"unreadable", "garbage", "bodyerror"}

LoadedDocument == Missed /\ last.outcome = "returned" /\ last.file.state = "ok"

Next == \E basefile \in Bases, ref \in Refs : ReadInfoForRef(basefile, ref)

Spec == Init /\ [][Next]_vars

SpecConcurrent == Init /\ [][NextConcurrent]_vars

SpecKeys == Init /\ [][NextKeys]_vars

----------------------------------------------------------------------------
(* Claims about the resolver called from one goroutine (Spec) *)

SameAsPrevious ==
    /\ Called
    /\ last.prev.outcome = "returned"
    /\ last.prev.base = last.base
    /\ last.prev.ref = last.ref

\* C1: when resolve(base, ref) is called twice in sequence, the second call
\* returns the tree the first returned, is served from the cache, and the
\* two calls together invoke ReadFile at most once.
C1_SecondCallFromCache ==
    SameAsPrevious =>
        /\ last.outcome = "returned"
        /\ last.result = last.prev.result
        /\ last.hit
        /\ reads = last.reads0
        /\ reads - last.prev.reads0 <= 1

C1_Witness ==
    /\ SameAsPrevious
    /\ last.file.state = "ok"
    /\ last.result.kind = "scalar"
    /\ reads = 1

\* C2: a reference file#/k1/.../kn resolved on an empty cache, whose
\* document loads and whose segments are each a key of the Mapping reached
\* so far (keys unique), returns the subtree reached by descending through
\* k1, ..., kn and stores it in the cache under ref.
C2_ReturnsDescendedSubtree ==
    ( /\ LoadedDocument
      /\ last.before = <<>>
      /\ HasFragment(last.ref)
      /\ IsAbsolute(FragmentPart(last.ref))
      /\ Descend(last.file.doc, Segments(last.ref)).ok )
    => /\ last.result = Descend(last.file.doc, Segments(last.ref)).node
       /\ CacheHas(info_cache, last.ref)
       /\ info_cache.m[last.ref] = last.result

\* C3: resolve fails with a ReferenceError, and returns no tree, whenever
\* some segment names a key absent from the current Mapping or the current
\* node is not a Mapping while a segment remains.
C3_IncompleteWalkFails ==
    ( /\ Missed
      /\ last.file.state = "ok"
      /\ ~Descend(last.file.doc, Segments(last.ref)).ok )
    => last.outcome = "ReferenceError"

\* C4: a document load that fails reaches the caller of resolve as a typed
\* failure: the process is not terminated and no tree is returned.
C4_LoadFailureIsTyped ==
    (Missed /\ LoadFailed) =>
        /\ proc = "running"
        /\ last.outcome \in {"IOError", "NetworkError", "ParseError"}

\* C6: the locator handed to ReadFile is baseLocator when the file part is
\* empty, the file part itself when it is a URL or an absolute path, and
\* otherwise the file part joined onto the directory of baseLocator.
C6_LocatorOfFilePart ==
    Missed => last.filename = Locator(last.base, last.ref)

\* C9: the value resolve(base, ref) returns is the value a resolver with an
\* empty cache returns for the same (base, ref), whatever calls came before.
C9_SameAsFreshResolver ==
    (Called /\ last.outcome = "returned") =>
        LET fresh == ReadFile(Filename(last.base, last.ref), last.file)
        IN  /\ fresh.kind = "value"
            /\ last.result = Walk(fresh.info, last.ref)

\* C10: a call whose load fails or whose fragment path cannot be walked to
\* completion leaves the cache unchanged, and no call removes or overwrites
\* an entry.
C10_CacheOnlyOnSuccess ==
    /\ ( /\ Missed
         /\ \/ LoadFailed
            \/ /\ last.file.state = "ok"
               /\ ~Descend(last.file.doc, Segments(last.ref)).ok )
       => info_cache.m = last.before
    /\ Called =>
         \A r \in DOMAIN last.before :
             CacheHas(info_cache, r) /\ info_cache.m[r] = last.before[r]

----------------------------------------------------------------------------
(* Claims about the key-set helpers (SpecKeys) *)

Elems(seq) == {seq[i] : i \in 1..Len(seq)}

\* seq lists, in the order of `of`, exactly the entries of `of` at the
\* positions in `at`
ListsInOrder(seq, of, at) ==
    /\ Len(seq) = Cardinality(at)
    /\ \A p \in at : seq[Cardinality({q \in at : q <= p})] = of[p]

\* C7: missingKeys(M, R) holds only elements of R, a key of R is in it
\* exactly when hasKey(M, k) is false, and it lists them in the order of R.
C7_MissingKeys ==
    kout.op = "MissingKeysInMap" =>
        /\ Elems(kout.keys) \subseteq Elems(kin.requiredKeys)
        /\ \A k \in Elems(kin.requiredKeys) :
               k \in Elems(kout.keys) <=> ~MapHasKey(kin.m, k)
        /\ ListsInOrder(kout.keys, kin.requiredKeys,
               {p \in 1..Len(kin.requiredKeys) :
                    kin.requiredKeys[p] \notin KeysOf(kin.m)})

C7_Witness ==
    /\ kout.op = "MissingKeysInMap"
    /\ Len(kin.requiredKeys) = 2
    /\ Len(kout.keys) = 1
    /\ kout.keys[1] = kin.requiredKeys[2]

KeyAllowed(k) ==
    \/ k \in Elems(kin.allowedKeys)
    \/ \E pattern \in Elems(kin.allowedPatterns) : PatternMatches(pattern, k)

\* C8: invalidKeys(M, allowed, patterns) is exactly the keys of M that
\* neither equal an entry of allowed nor match a pattern of patterns, in
\* the order of M; so it is empty exactly when every key of M is allowed.
C8_InvalidKeys ==
    kout.op = "InvalidKeysInMap" =>
        /\ kout.keys = <<>> <=> \A k \in KeysOf(kin.m) : KeyAllowed(k)
        /\ ListsInOrder(kout.keys,
               [i \in 1..Len(kin.m.items) |-> kin.m.items[i].Key],
               {p \in 1..Len(kin.m.items) : ~KeyAllowed(kin.m.items[p].Key)})

C8_Witness ==
    /\ kout.op = "InvalidKeysInMap"
    /\ Len(kin.m.items) = 2
    /\ Len(kin.allowedPatterns) = 2
    /\ kin.allowedKeys = <<>>
    /\ kout.keys = <<kin.m.items[2].Key>>
    /\ ~PatternMatches(kin.allowedPatterns[1], kin.m.items[1].Key)
    /\ PatternMatches(kin.allowedPatterns[2], kin.m.items[1].Key)

----------------------------------------------------------------------------
(* Claims about concurrent callers (SpecConcurrent) *)

AllReturned == \A g \in Callers : pc[g] = "returned"

SameCall ==
    \A g, h \in Callers :
        loc[g].basefile = loc[h].basefile /\ loc[g].ref = loc[h].ref

\* C5: when several goroutines resolve the same reference at once, the
\* document is loaded exactly once, every call returns an equal result, and
\* the result is in the cache.
C5_OneLoadForConcurrentCallers ==
    (AllReturned /\ SameCall) =>
        /\ reads = 1
        /\ \A g, h \in Callers : loc[g].result = loc[h].result
        /\ \A g \in Callers :
               /\ CacheHas(info_cache, loc[g].ref)
               /\ info_cache.m[loc[g].ref] = loc[g].result

====
